---- MODULE Spec2Model ----
(***************************************************************************)
(* Model of Backend/pipeline/steps.py: the five image preprocessing stages *)
(* ensure_png_compatible, resize_image, apply_clahe_only, denoise_image    *)
(* and clahe_contrast_enhancement, as a caller sees them.                  *)
(*                                                                         *)
(* A buffer (numpy array) is a record                                      *)
(*   shape : img.shape, <<h, w>> or <<h, w, c>>                            *)
(*   dtype : "uint8", "int16" or "float64"                                 *)
(*   px    : the samples of the first pixel, when they are known exactly   *)
(*           (float64 samples are kept in tenths: 27 stands for 2.7)       *)
(*   by    : "exact" when px holds the samples, otherwise the cv2 routine  *)
(*           that computed the samples (their values are not modelled)     *)
(* A call is one action; it leaves the caller's argument in img, the       *)
(* returned array in ret (same = it is the very object passed in) or the   *)
(* raised exception in err.                                                *)
(***************************************************************************)
EXTENDS Integers, Sequences, FiniteSets

\* ------------------------------------------------------------------------
\* Bounds of the model
MaxH == 2
MaxW == 2
MaxTW == 3

\* Sizes of the arrays a caller passes in, and the target widths it asks for
Heights == (0..MaxH) \cup {11, 600}
Widths == (0..MaxW) \cup {11, 900, 1800}
TargetWidths == (1..MaxTW) \cup {15, 1800}
ChannelCounts == {1, 3, 4}

\* ------------------------------------------------------------------------
\* IEEE-754 binary64 arithmetic, as far as resize_image uses it:
\* scale = target_width / w ; int(h * scale).
\* A positive double is [m |-> 53 bits, most significant first,
\*                       e |-> number of those bits after the binary point].
MantBits == 53

\* number of bits of n, 1 <= n < 2^30
BitLen(n) ==
    CHOOSE k \in 1..30 : 2^(k - 1) <= n /\ n < 2^k

\* the integer written by bits[lo..hi], most significant first (< 2^30)
RECURSIVE BitsVal(_, _, _)
BitsVal(bits, lo, hi) ==
    IF lo > hi THEN 0
    ELSE IF lo = hi THEN bits[lo]
    ELSE LET mid == (lo + hi) \div 2
         IN  BitsVal(bits, lo, mid) * 2^(hi - mid) + BitsVal(bits, mid + 1, hi)

\* 2^j mod w
RECURSIVE Pow2Mod(_, _)
Pow2Mod(j, w) ==
    IF j < 15 THEN 2^j % w
    ELSE ((2^15 % w) * Pow2Mod(j - 15, w)) % w

\* bits + 1; one bit longer when every bit is 1
BitsInc(bits) ==
    LET zeros == {i \in 1..Len(bits) : bits[i] = 0}
    IN  IF zeros = {}
        THEN [i \in 1..(Len(bits) + 1) |-> IF i = 1 THEN 1 ELSE 0]
        ELSE LET p == CHOOSE i \in zeros : \A j \in zeros : j <= i
             IN  [i \in 1..Len(bits) |->
                    IF i < p THEN bits[i] ELSE IF i = p THEN 1 ELSE 0]

\* Round a bit string of at least MantBits bits to MantBits significant
\* bits, to nearest, ties to even; sticky tells that nonzero bits follow the
\* string.  dropped is the number of low bits the result no longer carries.
RoundNearestEven(bits, sticky) ==
    LET keep  == SubSeq(bits, 1, MantBits)
        rest  == SubSeq(bits, MantBits + 1, Len(bits))
        guard == IF rest = << >> THEN 0 ELSE rest[1]
        tail  == sticky \/ \E i \in 2..Len(rest) : rest[i] = 1
        up    == guard = 1 /\ (tail \/ keep[MantBits] = 1)
        inc   == IF up THEN BitsInc(keep) ELSE keep
    IN  IF Len(inc) > MantBits
        THEN [m |-> SubSeq(inc, 1, MantBits), dropped |-> Len(rest) + 1]
        ELSE [m |-> inc, dropped |-> Len(rest)]

\* a / b for integers a >= b >= 1, b < 2^16 (Python true division of two
\* ints, correctly rounded): the quotient by long division, one bit more
\* than the mantissa holds, then rounded.
FloatDiv(a, b) ==
    LET ip   == a \div b
        k    == BitLen(ip)
        r    == a % b
        rem(j) == (Pow2Mod(j, b) * r) % b
        bits == [i \in 1..(MantBits + 1) |->
                    IF i <= k THEN (ip \div 2^(k - i)) % 2
                    ELSE (2 * rem(i - k - 1)) \div b]
        rnd  == RoundNearestEven(bits, rem(MantBits + 1 - k) # 0)
    IN  [m |-> rnd.m, e |-> (MantBits + 1 - k) - rnd.dropped]

\* h * f for an integer 1 <= h < 2^18 and a double f (float(h) is exact):
\* the exact product in limbs of 13 bits, then rounded.
LimbBits == 13

FloatMulInt(h, f) ==
    LET B     == 2^LimbBits
        L(j)  == BitsVal(f.m, IF j = 4 THEN 1 ELSE MantBits - LimbBits * (j + 1) + 1,
                         MantBits - LimbBits * j)
        t0    == h * L(0)
        t1    == h * L(1) + t0 \div B
        t2    == h * L(2) + t1 \div B
        t3    == h * L(3) + t2 \div B
        t4    == h * L(4) + t3 \div B
        low   == << t0 % B, t1 % B, t2 % B, t3 % B >>
        len   == 4 * LimbBits + BitLen(t4)
        bit(i) == IF i < 4 * LimbBits
                  THEN (low[(i \div LimbBits) + 1] \div 2^(i % LimbBits)) % 2
                  ELSE (t4 \div 2^(i - 4 * LimbBits)) % 2
        rnd   == RoundNearestEven([n \in 1..len |-> bit(len - n)], FALSE)
    IN  [m |-> rnd.m, e |-> f.e - rnd.dropped]

\* int(f): truncation toward zero (results below 2^30)
FloatToInt(f) ==
    IF f.e >= MantBits THEN 0
    ELSE BitsVal(f.m, 1, MantBits - f.e)

\* new_h = int(h * scale), scale = target_width / w, for 1 <= w < target_width
NewHeight(h, w, target_width) ==
    IF h = 0 THEN 0
    ELSE FloatToInt(FloatMulInt(h, FloatDiv(target_width, w)))

\* ------------------------------------------------------------------------
\* Arrays and exceptions

NoneBuf == [shape |-> << >>, dtype |-> "none", px |-> << >>, by |-> "none"]

Ndim(b) == Len(b.shape)
Height(b) == b.shape[1]
Width(b) == b.shape[2]
Channels(b) == IF Ndim(b) = 3 THEN b.shape[3] ELSE 1
IsEmpty(b) == Height(b) = 0 \/ Width(b) = 0

NoErr == [cls |-> "", msg |-> ""]
ValueError(msg) == [cls |-> "ValueError", msg |-> msg]
ZeroDivisionError == [cls |-> "ZeroDivisionError", msg |-> "division by zero"]
Cv2Error(fn) == [cls |-> "cv2.error", msg |-> fn]

\* What a call does: it returns an array (same = the object it was given)
\* or raises; arg is the caller's array as the call leaves it.
Return(img, buf, same) ==
    [kind |-> "returned", ret |-> buf, same |-> same, err |-> NoErr, arg |-> img]
Raise(img, e) ==
    [kind |-> "raised", ret |-> NoneBuf, same |-> FALSE, err |-> e, arg |-> img]

\* ------------------------------------------------------------------------
\* numpy and cv2 routines the stages call

\* float64 samples are written in tenths
Tenths == 10

Clip(v, lo, hi) == IF v < lo THEN lo ELSE IF v > hi THEN hi ELSE v

\* np.clip(x, 0, 255) followed by astype(np.uint8) on one finite sample:
\* astype drops the fraction
ClipAstypeSample(dtype, v) ==
    IF dtype = "float64" THEN Clip(v, 0, 255 * Tenths) \div Tenths
    ELSE Clip(v, 0, 255)

\* np.clip(img, 0, 255).astype(np.uint8): a new array
ClipAstype(img) ==
    [shape |-> img.shape, dtype |-> "uint8",
     px |-> [i \in 1..Len(img.px) |-> ClipAstypeSample(img.dtype, img.px[i])],
     by |-> img.by]

\* cv2.cvtColor(img, cv2.COLOR_BGRA2BGR) on a 4-channel uint8 array
CvtColorBGRA2BGR(img) ==
    IF IsEmpty(img) THEN Raise(img, Cv2Error("cvtColor"))
    ELSE Return(img, [shape |-> << Height(img), Width(img), 3 >>, dtype |-> img.dtype,
                      px |-> SubSeq(img.px, 1, IF img.px = << >> THEN 0 ELSE 3),
                      by |-> img.by], FALSE)

\* cv2.cvtColor(img, cv2.COLOR_BGR2GRAY) on a 3-dimensional array: 3 or 4
\* channels of depth 8U (16U and 32F, not modelled, are accepted too)
CvtColorBGR2GRAY(img) ==
    IF IsEmpty(img) \/ Channels(img) \notin {3, 4} \/ img.dtype # "uint8"
    THEN Raise(img, Cv2Error("cvtColor"))
    ELSE Return(img, [shape |-> << Height(img), Width(img) >>, dtype |-> img.dtype,
                      px |-> << >>, by |-> "cvtColor"], FALSE)

\* clahe.apply(gray) on a 2-dimensional array: type 8UC1 (or 16UC1); what it
\* does with an array without pixels is left open
ClaheApply(img, gray) ==
    IF gray.dtype # "uint8" THEN {Raise(img, Cv2Error("CLAHE"))}
    ELSE LET out == [shape |-> gray.shape, dtype |-> "uint8", px |-> << >>, by |-> "CLAHE"]
         IN  IF IsEmpty(gray) THEN {Raise(img, Cv2Error("CLAHE")), Return(img, out, FALSE)}
             ELSE {Return(img, out, FALSE)}

\* cv2.fastNlMeansDenoising(img, None, h, templateWindowSize, searchWindowSize):
\* depth 8U, up to 4 channels
FastNlMeansDenoising(img) ==
    IF img.dtype # "uint8" THEN {Raise(img, Cv2Error("fastNlMeansDenoising"))}
    ELSE LET out == [shape |-> img.shape, dtype |-> "uint8", px |-> << >>,
                     by |-> "fastNlMeansDenoising"]
         IN  IF IsEmpty(img)
             THEN {Raise(img, Cv2Error("fastNlMeansDenoising")), Return(img, out, FALSE)}
             ELSE {Return(img, out, FALSE)}

\* cv2.resize(img, (new_w, new_h), interpolation=cv2.INTER_CUBIC); the result
\* of a single-channel array is 2-dimensional
Cv2Resize(img, new_w, new_h) ==
    IF IsEmpty(img) \/ new_w = 0 \/ new_h = 0 THEN Raise(img, Cv2Error("resize"))
    ELSE Return(img, [shape |-> IF Channels(img) = 1 THEN << new_h, new_w >>
                                ELSE << new_h, new_w, Channels(img) >>,
                      dtype |-> img.dtype, px |-> << >>, by |-> "resize"], FALSE)

\* ------------------------------------------------------------------------
\* The five stages: the set of outcomes of a call

\* variant: converts the samples in the caller's array (in place)
ensure_png_compatible_inplace(img) ==
    IF img = NoneBuf THEN {Raise(img, ValueError("Invalid image input"))}
    ELSE LET u8 == IF img.dtype # "uint8" THEN ClipAstype(img) ELSE img
         IN  IF Ndim(u8) = 3 /\ u8.shape[3] = 4
             THEN {[CvtColorBGRA2BGR(u8) EXCEPT !.arg = u8]}
             ELSE {Return(u8, u8, TRUE)}

ensure_png_compatible(img) ==
    IF img = NoneBuf THEN {Raise(img, ValueError("Invalid image input"))}
    ELSE LET u8 == IF img.dtype # "uint8" THEN ClipAstype(img) ELSE img
         IN  IF Ndim(u8) = 3 /\ u8.shape[3] = 4
             THEN {[CvtColorBGRA2BGR(u8) EXCEPT !.arg = img]}
             ELSE {Return(img, u8, img.dtype = "uint8")}

\* variant: the guard is w <= target_width
resize_image_le(img, target_width) ==
    IF img = NoneBuf THEN {Raise(img, ValueError("Input image is None"))}
    ELSE LET h == Height(img)
             w == Width(img)
         IN  IF w <= target_width
             THEN IF w = 0 THEN {Raise(img, ZeroDivisionError)}
                  ELSE {Cv2Resize(img, target_width, NewHeight(h, w, target_width))}
             ELSE {Return(img, img, TRUE)}

resize_image(img, target_width) ==
    IF img = NoneBuf THEN {Raise(img, ValueError("Input image is None"))}
    ELSE LET h == Height(img)
             w == Width(img)
         IN  IF w < target_width
             THEN IF w = 0 THEN {Raise(img, ZeroDivisionError)}
                  ELSE {Cv2Resize(img, target_width, NewHeight(h, w, target_width))}
             ELSE {Return(img, img, TRUE)}

\* variant: no conversion to grayscale, the result keeps the input's shape
apply_clahe_only_keepshape(img) ==
    IF img = NoneBuf THEN {Raise(img, ValueError("Input image is None"))}
    ELSE IF img.dtype # "uint8" \/ IsEmpty(img) THEN {Raise(img, Cv2Error("CLAHE"))}
         ELSE {Return(img, [shape |-> img.shape, dtype |-> "uint8", px |-> << >>,
                            by |-> "CLAHE"], FALSE)}

apply_clahe_only(img) ==
    IF img = NoneBuf THEN {Raise(img, ValueError("Input image is None"))}
    ELSE IF Ndim(img) = 3
         THEN LET g == CvtColorBGR2GRAY(img)
              IN  IF g.kind = "raised" THEN {g} ELSE ClaheApply(img, g.ret)
         ELSE ClaheApply(img, img)

\* variant: no check of the number of dimensions
denoise_image_unchecked(img) ==
    IF img = NoneBuf THEN {Raise(img, ValueError("Input image is None"))}
    ELSE FastNlMeansDenoising(img)

denoise_image(img) ==
    IF img = NoneBuf THEN {Raise(img, ValueError("Input image is None"))}
    ELSE IF Ndim(img) # 2
         THEN {Raise(img, ValueError("Denoising expects a grayscale image"))}
         ELSE FastNlMeansDenoising(img)

clahe_contrast_enhancement(img) ==
    IF img = NoneBuf THEN {Raise(img, ValueError("Input image is None"))}
    ELSE IF Ndim(img) # 2
         THEN {Raise(img, ValueError("CLAHE contrast enhancement expects a grayscale image"))}
         ELSE ClaheApply(img, img)

\* ------------------------------------------------------------------------
\* The caller

VARIABLES
    img,     \* the array the caller passes (NoneBuf: None)
    ret,     \* the array the last call returned
    same,    \* ret is the object that was passed in
    err,     \* the exception the last call raised
    pc,      \* "call": about to call; "returned" / "raised": after the call
    op,      \* the stage last called
    tw,      \* target_width of the last resize_image call
    stage,   \* the calls so far are stages 1..stage of the pipeline, in order
    orig,    \* the array the first call was given
    gray     \* <<h, w>> of the array apply_clahe_only last succeeded on, while
             \* only denoise_image and clahe_contrast_enhancement followed

vars == << img, ret, same, err, pc, op, tw, stage, orig, gray >>

DefaultTargetWidth == 1800
OutOfOrder == 0 - 1

Uint8Samples == << 0, 7, 255, 128 >>
Float64Samples == << 0 - 15, 27, 2559, 3000 >>

\* the first pixel of an input array: c samples starting at the k-th
FirstPixel(pool, c, k) == [i \in 1..c |-> pool[((i + k - 1) % Len(pool)) + 1]]

InputShapes ==
    {<< h, w >> : h \in Heights, w \in Widths}
        \cup {<< h, w, c >> : h \in Heights, w \in Widths, c \in ChannelCounts}

InputBuffers ==
    {[shape |-> s, dtype |-> "uint8",
      px |-> IF s[1] = 0 \/ s[2] = 0 THEN << >>
             ELSE FirstPixel(Uint8Samples, IF Len(s) = 3 THEN s[3] ELSE 1, 0),
      by |-> "exact"] : s \in InputShapes}
    \cup
    {[shape |-> x[1], dtype |-> "float64",
      px |-> IF x[1][1] = 0 \/ x[1][2] = 0 THEN << >>
             ELSE FirstPixel(Float64Samples, IF Len(x[1]) = 3 THEN x[1][3] ELSE 1, x[2]),
      by |-> "exact"] : x \in InputShapes \X {0, 1}}

Init ==
    /\ img \in InputBuffers \cup {NoneBuf}
    /\ ret = NoneBuf
    /\ same = FALSE
    /\ err = NoErr
    /\ pc = "call"
    /\ op = ""
    /\ tw = 0
    /\ stage = 0
    /\ orig = img
    /\ gray = << >>

\* one call of a stage: o is its outcome, idx its place in the pipeline
Call(name, o, idx, width) ==
    /\ img' = o.arg
    /\ ret' = o.ret
    /\ same' = o.same
    /\ err' = o.err
    /\ pc' = o.kind
    /\ op' = name
    /\ tw' = width
    /\ stage' = IF stage = idx - 1 THEN idx ELSE OutOfOrder
    /\ orig' = orig

EnsurePngCompatible ==
    /\ pc = "call"
    /\ \E o \in ensure_png_compatible(img) : Call("ensure_png_compatible", o, 1, 0)
    /\ gray' = << >>

ResizeImage ==
    /\ pc = "call"
    /\ \E target_width \in TargetWidths :
         \E o \in resize_image(img, target_width) :
            Call("resize_image", o,
                 IF target_width = DefaultTargetWidth THEN 2 ELSE OutOfOrder, target_width)
    /\ gray' = << >>

ApplyClaheOnly ==
    /\ pc = "call"
    /\ \E o \in apply_clahe_only(img) :
         /\ Call("apply_clahe_only", o, 3, 0)
         /\ gray' = IF o.kind = "returned" THEN << Height(img), Width(img) >> ELSE << >>

DenoiseImage ==
    /\ pc = "call"
    /\ \E o \in denoise_image(img) : Call("denoise_image", o, 4, 0)
    /\ gray' = gray

ClaheContrastEnhancement ==
    /\ pc = "call"
    /\ \E o \in clahe_contrast_enhancement(img) : Call("clahe_contrast_enhancement", o, 5, 0)
    /\ gray' = gray

\* the caller hands the returned array to the next stage
Feed ==
    /\ pc = "returned"
    /\ img' = ret
    /\ pc' = "call"
    /\ UNCHANGED << ret, same, err, op, tw, stage, orig, gray >>

Next ==
    \/ EnsurePngCompatible
    \/ ResizeImage
    \/ ApplyClaheOnly
    \/ DenoiseImage
    \/ ClaheContrastEnhancement
    \/ Feed

Spec == Init /\ [][Next]_vars

\* ------------------------------------------------------------------------
\* The error kinds of the specification, as the code raises them

InvalidInput(e) ==
    e.cls = "ValueError" /\ e.msg \in {"Invalid image input", "Input image is None"}

ShapeMismatch(e) ==
    /\ e.cls = "ValueError"
    /\ e.msg \in {"Denoising expects a grayscale image",
                  "CLAHE contrast enhancement expects a grayscale image"}

\* the exceptions the single-channel stages raise for None
AbsentErrors ==
    {o.err : o \in denoise_image(NoneBuf) \cup clahe_contrast_enhancement(NoneBuf)}

SingleChannelStages == {"denoise_image", "clahe_contrast_enhancement"}
Called == pc # "call"
Present == img # NoneBuf
Abs(n) == IF n < 0 THEN 0 - n ELSE n

\* ------------------------------------------------------------------------
\* Properties

\* C1: denoise_image and clahe_contrast_enhancement, given a present
\* 3-channel array, raise the grayscale ValueError, which differs from the
\* exception raised for None, and return nothing.
C1_ThreeChannelRejected ==
    (Called /\ op \in SingleChannelStages /\ Present /\ Ndim(img) = 3 /\ Channels(img) = 3)
        => /\ pc = "raised"
           /\ ShapeMismatch(err)
           /\ ~InvalidInput(err)
           /\ err \notin AbsentErrors
           /\ ret = NoneBuf

C1_Witness ==
    /\ pc = "raised"
    /\ op = "denoise_image"
    /\ Present /\ Ndim(img) = 3 /\ Channels(img) = 3 /\ ~IsEmpty(img)
    /\ ShapeMismatch(err)

\* C2: every stage, given None or an array of zero height or zero width,
\* raises the invalid-input ValueError and returns nothing.
C2_AbsentOrEmptyRejected ==
    (Called /\ (img = NoneBuf \/ IsEmpty(img)))
        => (pc = "raised" /\ InvalidInput(err) /\ ret = NoneBuf)

\* C3: resize_image on an array narrower than target_width returns an array
\* of width target_width, height the integer nearest to h * target_width / w,
\* and the same number of channels.
C3_HeightRounded ==
    (Called /\ op = "resize_image" /\ Present /\ ~IsEmpty(img) /\ Width(img) < tw)
        => /\ pc = "returned"
           /\ Width(ret) = tw
           /\ 2 * Abs(Height(ret) * Width(img) - Height(img) * tw) <= Width(img)
           /\ Channels(ret) = Channels(img)

\* C4: resize_image on a present array at least target_width wide returns
\* the array it was given, unchanged; and no call of resize_image returns an
\* array narrower or shorter than its input.
C4_NoDownscale ==
    /\ (Called /\ op = "resize_image" /\ Present /\ Width(img) >= tw)
          => (pc = "returned" /\ same /\ ret = img)
    /\ (pc = "returned" /\ op = "resize_image")
          => (Width(ret) >= Width(img) /\ Height(ret) >= Height(img))

C4_Witness ==
    /\ pc = "returned"
    /\ op = "resize_image"
    /\ ~IsEmpty(img)
    /\ Width(img) >= tw
    /\ same /\ ret = img

\* C5: resize_image on an array of width w < target_width and height h >= 1
\* returns width target_width and a height out_h >= 1 with
\* |out_h - h * target_width / w| < 1.
C5_AspectRatioWithinOneRow ==
    (Called /\ op = "resize_image" /\ Present /\ ~IsEmpty(img) /\ Width(img) < tw)
        => /\ pc = "returned"
           /\ Width(ret) = tw
           /\ Height(ret) >= 1
           /\ Abs(Height(ret) * Width(img) - Height(img) * tw) < Width(img)

\* C6: ensure_png_compatible turns every sample that is not an 8-bit integer
\* into the integer nearest to the sample clamped to [0, 255].
C6_ClampedAndRounded ==
    (pc = "returned" /\ op = "ensure_png_compatible" /\ img.dtype = "float64")
        => \A i \in 1..Len(ret.px) :
              /\ ret.px[i] \in 0..255
              /\ 2 * Abs(Tenths * ret.px[i] - Clip(img.px[i], 0, 255 * Tenths)) <= Tenths

\* C7: the five stages in order, resize_image with target_width 1800, raise
\* nothing on any non-empty input of 1, 3 or 4 channels; a 4-channel 900x600
\* input gives the shapes 600x900x3, 1200x1800x3 and then 1200x1800.
C7_PipelineCompletes ==
    (stage >= 1 /\ orig # NoneBuf /\ ~IsEmpty(orig))
        => /\ pc # "raised"
           /\ (pc = "returned" /\ orig.shape = << 600, 900, 4 >>)
                 => ret.shape = CASE stage = 1 -> << 600, 900, 3 >>
                                  [] stage = 2 -> << 1200, 1800, 3 >>
                                  [] OTHER -> << 1200, 1800 >>

\* C8: what apply_clahe_only returns is 2-dimensional (one channel) with the
\* height and width of its input, and so is what any later successful run of
\* denoise_image and clahe_contrast_enhancement returns.
C8_SingleChannelKept ==
    (gray # << >> /\ pc = "returned")
        => /\ ret.shape = gray
           /\ Channels(ret) = 1

C8_Witness ==
    /\ gray # << >>
    /\ pc = "returned"
    /\ op = "clahe_contrast_enhancement"
    /\ ~IsEmpty(ret)
    /\ ret.by = "CLAHE"
    /\ img.by = "fastNlMeansDenoising"

\* C9: a call leaves the array it was given as it was, whether it returns
\* or raises; what it returns is that very array only when nothing changed.
C9_InputNotMutated ==
    [][pc = "call" => (img' = img /\ (same' => ret' = img))]_vars

C9_Witness ==
    /\ pc = "returned"
    /\ op = "ensure_png_compatible"
    /\ img.dtype = "float64"
    /\ ~IsEmpty(img)
    /\ ~same
    /\ ret # img

\* C10: denoise_image and clahe_contrast_enhancement reject a present
\* (non-empty) array with the grayscale ValueError exactly when it has more
\* than one channel, and report None with the invalid-input ValueError.
C10_RejectedIffNotSingleChannel ==
    (Called /\ op \in SingleChannelStages)
        => IF img = NoneBuf
           THEN pc = "raised" /\ InvalidInput(err) /\ ~ShapeMismatch(err)
           ELSE ~IsEmpty(img)
                   => ((pc = "raised" /\ ShapeMismatch(err)) <=> (Channels(img) # 1))

====
